---- MODULE Spec2Model ----
(***************************************************************************)
(* Anemoi sponge hasher and Jive compressor, instance t = 12, r = 11 over  *)
(* the base field of Ed-on-BLS12-377 (anemoi_12_11/hasher.rs), and the     *)
(* generator-multiplication helper of bls12_377/mod.rs.                    *)
(*                                                                         *)
(* Field elements are modelled as a constant part, kept as 16 limbs of 16  *)
(* bits in little-endian order and reduced modulo the field modulus, plus  *)
(* a bag of permutation outputs.  The permutation itself is not part of    *)
(* the hasher file: it is modelled as an ideal permutation, every call of  *)
(* which is recorded (its input state) in the list perms of the running    *)
(* invocation; output j of the n-th call is the atom <<n, j>>.             *)
(***************************************************************************)
EXTENDS Integers, Sequences, FiniteSets, Bags, TLC

\* ------------------------------------------------------------------------
\* Instance parameters
\* ------------------------------------------------------------------------
STATE_WIDTH == 12
RATE_WIDTH == 11
DIGEST_SIZE == 1
NUM_COLUMNS == 6

\* bytes.chunks(31): bytes of input taken per absorbed element
CHUNK_SIZE == 31
\* [0u8; 32]: size of the buffer handed to Felt::read
BUF_SIZE == 32

\* ------------------------------------------------------------------------
\* Field adapter: 256-bit little-endian integers as 16 limbs of 16 bits
\* ------------------------------------------------------------------------
LIMB_BASE == 65536
NUM_LIMBS == 16

\* modulus of Felt, 0x12ab655e9a2ca55660b44d1e5c37b00159aa76fed00000010a11800000000001
MODULUS == <<1, 0, 32768, 2577, 1, 53248, 30462, 22954,
             45057, 23607, 19742, 24756, 42326, 39468, 25950, 4779>>

ZeroLimbs == [j \in 1..NUM_LIMBS |-> 0]
OneLimbs == [j \in 1..NUM_LIMBS |-> IF j = 1 THEN 1 ELSE 0]

\* a < b on limb vectors
LimbsLt(a, b) ==
    \E j \in 1..NUM_LIMBS :
        /\ a[j] < b[j]
        /\ \A m \in (j+1)..NUM_LIMBS : a[m] = b[m]

\* the carry into limb j of a + b
CarryIn(a, b, j) ==
    \E m \in 1..(j - 1) :
        /\ a[m] + b[m] >= LIMB_BASE
        /\ \A t \in (m + 1)..(j - 1) : a[t] + b[t] = LIMB_BASE - 1

\* limb j of a + b
SumLimb(a, b, j) ==
    (a[j] + b[j] + (IF CarryIn(a, b, j) THEN 1 ELSE 0)) % LIMB_BASE

\* a + b, which stays below 2^256
AddLimbs(a, b) ==
    <<SumLimb(a, b, 1), SumLimb(a, b, 2), SumLimb(a, b, 3), SumLimb(a, b, 4),
      SumLimb(a, b, 5), SumLimb(a, b, 6), SumLimb(a, b, 7), SumLimb(a, b, 8),
      SumLimb(a, b, 9), SumLimb(a, b, 10), SumLimb(a, b, 11), SumLimb(a, b, 12),
      SumLimb(a, b, 13), SumLimb(a, b, 14), SumLimb(a, b, 15), SumLimb(a, b, 16)>>

\* the borrow out of limb j - 1 of a - b
BorrowIn(a, b, j) ==
    \E m \in 1..(j - 1) :
        /\ a[m] < b[m]
        /\ \A t \in (m + 1)..(j - 1) : a[t] = b[t]

\* limb j of a - b
DiffLimb(a, b, j) ==
    (a[j] - b[j] - (IF BorrowIn(a, b, j) THEN 1 ELSE 0) + LIMB_BASE) % LIMB_BASE

\* a - b for a >= b
SubLimbs(a, b) ==
    <<DiffLimb(a, b, 1), DiffLimb(a, b, 2), DiffLimb(a, b, 3), DiffLimb(a, b, 4),
      DiffLimb(a, b, 5), DiffLimb(a, b, 6), DiffLimb(a, b, 7), DiffLimb(a, b, 8),
      DiffLimb(a, b, 9), DiffLimb(a, b, 10), DiffLimb(a, b, 11), DiffLimb(a, b, 12),
      DiffLimb(a, b, 13), DiffLimb(a, b, 14), DiffLimb(a, b, 15), DiffLimb(a, b, 16)>>

\* (a + b) mod p for reduced a, b
AddMod(a, b) ==
    LET s == AddLimbs(a, b)
    IN IF LimbsLt(s, MODULUS) THEN s ELSE SubLimbs(s, MODULUS)

\* Felt::zero(), Felt::one()
FeltZero == [val |-> ZeroLimbs, sym |-> EmptyBag]
FeltOne == [val |-> OneLimbs, sym |-> EmptyBag]

\* a field constant from its limbs
FeltOf(limbs) == [val |-> limbs, sym |-> EmptyBag]

\* Felt + Felt
FeltAdd(a, b) == [sym |-> a.sym (+) b.sym, val |-> AddMod(a.val, b.val)]

\* Felt::is_zero
FeltIsZero(a) == a = FeltZero

\* Felt::read(&buf[..]): 32 little-endian bytes to a field element; an error
\* when the integer is not below the modulus
FeltRead(b) ==
    LET limbs == [j \in 1..NUM_LIMBS |-> b[2*j - 1] + 256 * b[2*j]]
    IN IF LimbsLt(limbs, MODULUS)
       THEN [ok |-> TRUE, felt |-> FeltOf(limbs)]
       ELSE [ok |-> FALSE, felt |-> FeltZero]

\* byte j (1-based) of the little-endian serialization of a constant
FeltByte(a, j) ==
    IF j % 2 = 1 THEN a.val[(j + 1) \div 2] % 256
                 ELSE a.val[j \div 2] \div 256

\* to_bytes!(felt): the 32-byte little-endian serialization of a constant
ToBytes(a) == [j \in 1..BUF_SIZE |-> FeltByte(a, j)]

\* ------------------------------------------------------------------------
\* Permutation (ideal): records its input, returns 12 fresh outputs
\* ------------------------------------------------------------------------
PermOut(n, j) == [val |-> ZeroLimbs, sym |-> SetToBag({<<n, j>>})]

\* apply_permutation(&mut state) on the locals f
ApplyPermutation(f) ==
    [f EXCEPT !.perms = Append(f.perms, f.state),
              !.state = [j \in 1..STATE_WIDTH |-> PermOut(Len(f.perms) + 1, j)]]

\* [Felt::zero(); STATE_WIDTH]
ZeroState == [j \in 1..STATE_WIDTH |-> FeltZero]

\* ------------------------------------------------------------------------
\* Bounds and inputs
\* ------------------------------------------------------------------------
\* longest element sequence handed to hash_field / compress / compress_k
MaxElems == 23
\* most full 31-byte chunks in a byte string handed to hash
MaxChunks == 12
\* largest k handed to compress_k
MaxK == 13
\* most zero bytes appended to a byte string
MaxZeros == 4

\* a field constant below 2^16
SmallFelt(x) == FeltOf([j \in 1..NUM_LIMBS |-> IF j = 1 THEN x ELSE 0])

\* 2^248 - 1: the largest element that fits in 248 bits
Felt248Max == FeltOf([j \in 1..NUM_LIMBS |-> IF j = NUM_LIMBS THEN 255 ELSE 65535])
\* 2^248: the smallest element that does not
Felt248 == FeltOf([j \in 1..NUM_LIMBS |-> IF j = NUM_LIMBS THEN 256 ELSE 0])
\* p - x for 1 <= x < 2^16
FeltNeg(x) == FeltOf(SubLimbs(MODULUS, SmallFelt(x).val))

FeltVals == {FeltZero, FeltOne, Felt248Max, Felt248, FeltNeg(1)}

\* n elements: a, ..., a, b
Pattern(n, a, b) == [j \in 1..n |-> IF j = n THEN b ELSE a]
\* n elements: 1, 2, ..., n and p-1, p-2, ..., p-n
RampUp(n) == [j \in 1..n |-> SmallFelt(j)]
RampDown(n) == [j \in 1..n |-> FeltNeg(j)]

\* the element sequences of length len
ElemInputs(len) ==
    {Pattern(len, a, b) : a \in FeltVals, b \in FeltVals}
        \cup {RampUp(len), RampDown(len)}

\* ------------------------------------------------------------------------
\* State
\* ------------------------------------------------------------------------
VARIABLES
    op,            \* operation being executed
    pc,            \* the statement it is at
    bytes,         \* argument of hash
    elems,         \* argument of hash_field, compress, compress_k
    digests,       \* argument of merge
    k,             \* argument of compress_k
    state,         \* let mut state
    sigma,         \* let sigma
    i,             \* let mut i
    num_hashed,    \* let mut num_hashed
    num_elements,  \* let num_elements
    buf,           \* let mut buf
    n,             \* iterations of the absorption loop completed
    perms,         \* inputs of the apply_permutation calls of this invocation
    absorbed,      \* elements added to the state by the absorption loop so far
    result,        \* let mut result (Jive)
    abort,         \* a panic was raised
    out,           \* returned value
    hist           \* an earlier call and what it returned, kept for comparison

args == <<bytes, elems, digests, k>>
locals == <<state, sigma, i, num_hashed, num_elements, buf, n, perms, absorbed,
           result, abort>>
vars == <<op, pc, bytes, elems, digests, k, state, sigma, i, num_hashed,
          num_elements, buf, n, perms, absorbed, result, abort, out, hist>>

ZeroBuf == [j \in 1..BUF_SIZE |-> 0]

\* locals of an invocation that has not run any statement
NoLocals ==
    [state |-> ZeroState, sigma |-> FeltZero, i |-> 0, num_hashed |-> 0,
     num_elements |-> 0, buf |-> ZeroBuf, n |-> 0, perms |-> <<>>,
     absorbed |-> <<>>, result |-> <<>>, abort |-> FALSE]

Locals ==
    [state |-> state, sigma |-> sigma, i |-> i, num_hashed |-> num_hashed,
     num_elements |-> num_elements, buf |-> buf, n |-> n, perms |-> perms,
     absorbed |-> absorbed, result |-> result, abort |-> abort]

SetLocals(f) ==
    /\ state' = f.state
    /\ sigma' = f.sigma
    /\ i' = f.i
    /\ num_hashed' = f.num_hashed
    /\ num_elements' = f.num_elements
    /\ buf' = f.buf
    /\ n' = f.n
    /\ perms' = f.perms
    /\ absorbed' = f.absorbed
    /\ result' = f.result
    /\ abort' = f.abort

Panic(f) == [f EXCEPT !.abort = TRUE]

\* no call kept
NoHist ==
    [op |-> "none", args |-> <<<<>>, <<>>, <<>>, 0>>, pc |-> "idle", out |-> <<>>,
     perms |-> <<>>, other |-> FALSE]

\* ------------------------------------------------------------------------
\* hash_field
\* ------------------------------------------------------------------------
\* variant: the call starts from the state left by the call before it
HashFieldEnter_Resume(e) ==
    [NoLocals EXCEPT !.sigma = IF Len(e) % RATE_WIDTH = 0 THEN FeltOne ELSE FeltZero,
                     !.state = state]

\* state, sigma, i before the loop
HashFieldEnter(e) ==
    [NoLocals EXCEPT !.sigma = IF Len(e) % RATE_WIDTH = 0 THEN FeltOne ELSE FeltZero]

\* variant: the absorption loop permutes at the end of the first block only
HashFieldAbsorb_PermuteOnce(f, element) ==
    IF f.i >= STATE_WIDTH THEN Panic(f)
    ELSE LET g == [f EXCEPT !.state[f.i + 1] = FeltAdd(@, element),
                            !.i = f.i + 1,
                            !.n = f.n + 1,
                            !.absorbed = Append(@, element)]
         IN IF g.i % RATE_WIDTH = 0
            THEN IF f.perms = <<>> THEN [ApplyPermutation(g) EXCEPT !.i = 0]
                 ELSE [g EXCEPT !.i = 0]
            ELSE g

\* variant: the element replaces the content of the slot
HashFieldAbsorb_Overwrites(f, element) ==
    IF f.i >= STATE_WIDTH THEN Panic(f)
    ELSE LET g == [f EXCEPT !.state[f.i + 1] = element,
                            !.i = f.i + 1,
                            !.n = f.n + 1,
                            !.absorbed = Append(@, element)]
         IN IF g.i % RATE_WIDTH = 0
            THEN [ApplyPermutation(g) EXCEPT !.i = 0]
            ELSE g

\* variant: the iterator does not advance
HashFieldAbsorb_NoAdvance(f, element) ==
    IF f.i >= STATE_WIDTH THEN Panic(f)
    ELSE LET g == [f EXCEPT !.state[f.i + 1] = FeltAdd(@, element),
                            !.i = f.i + 1,
                            !.absorbed = Append(@, element)]
         IN IF g.i % RATE_WIDTH = 0
            THEN [ApplyPermutation(g) EXCEPT !.i = 0]
            ELSE g

\* one iteration of the absorption loop
HashFieldAbsorb(f, element) ==
    IF f.i >= STATE_WIDTH THEN Panic(f)
    ELSE LET g == [f EXCEPT !.state[f.i + 1] = FeltAdd(@, element),
                            !.i = f.i + 1,
                            !.n = f.n + 1,
                            !.absorbed = Append(@, element)]
         IN IF g.i % RATE_WIDTH = 0
            THEN [ApplyPermutation(g) EXCEPT !.i = 0]
            ELSE g

\* variant: sigma is added to the first rate slot
HashFieldSigma_FirstSlot(f) ==
    [f EXCEPT !.state[1] = FeltAdd(@, f.sigma)]

\* state[STATE_WIDTH - 1] += sigma
HashFieldSigma(f) ==
    [f EXCEPT !.state[STATE_WIDTH] = FeltAdd(@, f.sigma)]

\* variant: no pad-one is added
HashFieldPad_Nothing(f) == f

\* state[i] += Felt::one()
HashFieldPad(f) ==
    IF f.i >= STATE_WIDTH THEN Panic(f)
    ELSE [f EXCEPT !.state[f.i + 1] = FeltAdd(@, FeltOne)]

\* the permutation of the sigma = 0 branch
HashFieldFinal(f) == ApplyPermutation(f)

\* Digest::new(state[..DIGEST_SIZE])
HashFieldSqueeze(f) == SubSeq(f.state, 1, DIGEST_SIZE)

\* ------------------------------------------------------------------------
\* hash
\* ------------------------------------------------------------------------
Min(x, y) == IF x <= y THEN x ELSE y

\* the c-th (0-based) item of bytes.chunks(31)
Chunk(b, c) == SubSeq(b, CHUNK_SIZE * c + 1, Min(CHUNK_SIZE * (c + 1), Len(b)))

\* number of items of bytes.chunks(31)
NumChunks(b) == (Len(b) + CHUNK_SIZE - 1) \div CHUNK_SIZE

\* mutant: num_elements counts one element too many for a whole number of chunks
HashEnter_CountsExtra(b) ==
    LET ne == Len(b) \div 31 + 1
    IN [NoLocals EXCEPT !.num_elements = ne,
                        !.sigma = IF ne % RATE_WIDTH = 0 THEN FeltOne ELSE FeltZero]

\* variant: sigma is decided from the number of bytes
HashEnter_SigmaOnBytes(b) ==
    LET ne == IF Len(b) % 31 = 0 THEN Len(b) \div 31 ELSE Len(b) \div 31 + 1
    IN [NoLocals EXCEPT !.num_elements = ne,
                        !.sigma = IF Len(b) % RATE_WIDTH = 0 THEN FeltOne ELSE FeltZero]

\* num_elements, sigma, state, i, num_hashed, buf before the loop
HashEnter(b) ==
    LET ne == IF Len(b) % 31 = 0 THEN Len(b) \div 31 ELSE Len(b) \div 31 + 1
    IN [NoLocals EXCEPT !.num_elements = ne,
                        !.sigma = IF ne % RATE_WIDTH = 0 THEN FeltOne ELSE FeltZero]

\* mutant: the last chunk gets no marker byte
HashFillBuf_NoMarker(f, chunk) ==
    IF f.num_elements = 0 THEN <<>>
    ELSE IF f.num_hashed + f.i < f.num_elements - 1
    THEN IF Len(chunk) # 31 THEN <<>>
         ELSE [j \in 1..BUF_SIZE |-> IF j <= 31 THEN chunk[j] ELSE f.buf[j]]
    ELSE LET chunk_len == Len(chunk)
         IN IF chunk_len > BUF_SIZE THEN <<>>
            ELSE [j \in 1..BUF_SIZE |-> IF j <= chunk_len THEN chunk[j] ELSE 0]

\* mutant: the marker byte is also written after a full last chunk
HashFillBuf_MarkerFull(f, chunk) ==
    IF f.num_elements = 0 THEN <<>>
    ELSE IF f.num_hashed + f.i < f.num_elements - 1
    THEN IF Len(chunk) # 31 THEN <<>>
         ELSE [j \in 1..BUF_SIZE |-> IF j <= 31 THEN chunk[j] ELSE f.buf[j]]
    ELSE LET chunk_len == Len(chunk)
         IN IF chunk_len > BUF_SIZE THEN <<>>
            ELSE [j \in 1..BUF_SIZE |->
                     IF j <= chunk_len THEN chunk[j]
                     ELSE IF chunk_len <= 31 /\ j = chunk_len + 1 THEN 1
                     ELSE 0]

\* variant: the buffer is not cleared before the last chunk is copied
HashFillBuf_KeepsBuf(f, chunk) ==
    IF f.num_elements = 0 THEN <<>>
    ELSE IF f.num_hashed + f.i < f.num_elements - 1
    THEN IF Len(chunk) # 31 THEN <<>>
         ELSE [j \in 1..BUF_SIZE |-> IF j <= 31 THEN chunk[j] ELSE f.buf[j]]
    ELSE LET chunk_len == Len(chunk)
         IN IF chunk_len > BUF_SIZE THEN <<>>
            ELSE [j \in 1..BUF_SIZE |->
                     IF j <= chunk_len THEN chunk[j]
                     ELSE IF chunk_len < 31 /\ j = chunk_len + 1 THEN 1
                     ELSE f.buf[j]]

\* variant: the last chunk is also taken by the not-last branch
HashFillBuf_LastIsNotLast(f, chunk) ==
    IF f.num_elements = 0 THEN <<>>
    ELSE IF f.num_hashed + f.i <= f.num_elements - 1
    THEN IF Len(chunk) # 31 THEN <<>>
         ELSE [j \in 1..BUF_SIZE |-> IF j <= 31 THEN chunk[j] ELSE f.buf[j]]
    ELSE LET chunk_len == Len(chunk)
         IN IF chunk_len > BUF_SIZE THEN <<>>
            ELSE [j \in 1..BUF_SIZE |->
                     IF j <= chunk_len THEN chunk[j]
                     ELSE IF chunk_len < 31 /\ j = chunk_len + 1 THEN 1
                     ELSE 0]

\* the buffer after the if / else of one iteration; <<>> when a slice
\* operation panics.  num_elements - 1 is an unsigned subtraction.
HashFillBuf(f, chunk) ==
    IF f.num_elements = 0 THEN <<>>
    ELSE IF f.num_hashed + f.i < f.num_elements - 1
    THEN IF Len(chunk) # 31 THEN <<>>
         ELSE [j \in 1..BUF_SIZE |-> IF j <= 31 THEN chunk[j] ELSE f.buf[j]]
    ELSE LET chunk_len == Len(chunk)
         IN IF chunk_len > BUF_SIZE THEN <<>>
            ELSE [j \in 1..BUF_SIZE |->
                     IF j <= chunk_len THEN chunk[j]
                     ELSE IF chunk_len < 31 /\ j = chunk_len + 1 THEN 1
                     ELSE 0]

\* variant: num_hashed is not advanced at the end of a block
HashAbsorb_KeepsNumHashed(f, chunk) ==
    LET nb == HashFillBuf(f, chunk)
    IN IF nb = <<>> THEN Panic(f)
       ELSE LET r == FeltRead(nb)
            IN IF ~r.ok \/ f.i >= STATE_WIDTH THEN Panic([f EXCEPT !.buf = nb])
               ELSE LET g == [f EXCEPT !.buf = nb,
                                       !.state[f.i + 1] = FeltAdd(@, r.felt),
                                       !.i = f.i + 1,
                                       !.n = f.n + 1,
                                       !.absorbed = Append(@, r.felt)]
                    IN IF g.i % RATE_WIDTH = 0
                       THEN [ApplyPermutation(g) EXCEPT !.i = 0]
                       ELSE g

\* variant: the slots are counted from the end of the state
HashAbsorb_FromEnd(f, chunk) ==
    LET nb == HashFillBuf(f, chunk)
    IN IF nb = <<>> THEN Panic(f)
       ELSE LET r == FeltRead(nb)
            IN IF ~r.ok \/ f.i >= STATE_WIDTH THEN Panic([f EXCEPT !.buf = nb])
               ELSE LET g == [f EXCEPT !.buf = nb,
                                       !.state[STATE_WIDTH - f.i] = FeltAdd(@, r.felt),
                                       !.i = f.i + 1,
                                       !.n = f.n + 1,
                                       !.absorbed = Append(@, r.felt)]
                    IN IF g.i % RATE_WIDTH = 0
                       THEN [ApplyPermutation(g) EXCEPT
                                !.i = 0,
                                !.num_hashed = g.num_hashed + RATE_WIDTH]
                       ELSE g

\* one iteration of the absorption loop
HashAbsorb(f, chunk) ==
    LET nb == HashFillBuf(f, chunk)
    IN IF nb = <<>> THEN Panic(f)
       ELSE LET r == FeltRead(nb)
            IN IF ~r.ok \/ f.i >= STATE_WIDTH THEN Panic([f EXCEPT !.buf = nb])
               ELSE LET g == [f EXCEPT !.buf = nb,
                                       !.state[f.i + 1] = FeltAdd(@, r.felt),
                                       !.i = f.i + 1,
                                       !.n = f.n + 1,
                                       !.absorbed = Append(@, r.felt)]
                    IN IF g.i % RATE_WIDTH = 0
                       THEN [ApplyPermutation(g) EXCEPT
                                !.i = 0,
                                !.num_hashed = g.num_hashed + RATE_WIDTH]
                       ELSE g

\* mutant: sigma is added to the first rate slot
HashSigma_FirstSlot(f) ==
    [f EXCEPT !.state[1] = FeltAdd(@, f.sigma)]

\* state[STATE_WIDTH - 1] += sigma
HashSigma(f) ==
    [f EXCEPT !.state[STATE_WIDTH] = FeltAdd(@, f.sigma)]

\* variant: the pad-one goes to the slot after state[i]
HashPad_NextSlot(f) ==
    IF f.i + 1 >= STATE_WIDTH THEN Panic(f)
    ELSE [f EXCEPT !.state[f.i + 2] = FeltAdd(@, FeltOne)]

\* state[i] += Felt::one()
HashPad(f) ==
    IF f.i >= STATE_WIDTH THEN Panic(f)
    ELSE [f EXCEPT !.state[f.i + 1] = FeltAdd(@, FeltOne)]

\* variant: the final permutation of hash is applied twice
HashFinal_Twice(f) == ApplyPermutation(ApplyPermutation(f))

\* the permutation of the sigma = 0 branch
HashFinal(f) == ApplyPermutation(f)

\* Digest::new(state[..DIGEST_SIZE])
HashSqueeze(f) == SubSeq(f.state, 1, DIGEST_SIZE)

RECURSIVE HashLoop(_, _)
\* the whole absorption loop
HashLoop(f, b) ==
    IF f.abort \/ f.n >= NumChunks(b) THEN f
    ELSE HashLoop(HashAbsorb(f, Chunk(b, f.n)), b)

\* a whole call of hash: its final locals and its digest
HashRun(b) ==
    LET a == HashLoop(HashEnter(b), b)
        s == IF a.abort THEN a ELSE HashSigma(a)
        p == IF s.abort \/ ~FeltIsZero(s.sigma) THEN s ELSE HashPad(s)
        q == IF p.abort \/ ~FeltIsZero(p.sigma) THEN p ELSE HashFinal(p)
    IN [f |-> q, out |-> IF q.abort THEN <<>> ELSE HashSqueeze(q)]

\* ------------------------------------------------------------------------
\* merge
\* ------------------------------------------------------------------------
\* the state handed to the permutation
MergeState(ds) ==
    [j \in 1..STATE_WIDTH |->
        IF j <= DIGEST_SIZE THEN ds[1][j]
        ELSE IF j <= 2 * DIGEST_SIZE THEN ds[1][j - DIGEST_SIZE]
        ELSE FeltZero]

\* a whole call of merge
Merge(f, ds) ==
    LET g == ApplyPermutation([f EXCEPT !.state = MergeState(ds)])
    IN [f |-> g, out |-> SubSeq(g.state, 1, DIGEST_SIZE)]

\* ------------------------------------------------------------------------
\* Jive
\* ------------------------------------------------------------------------
\* mutant: the second state term is taken from the same column half
Compress_SameColumn(f, e) ==
    IF Len(e) # STATE_WIDTH THEN [f |-> Panic(f), out |-> <<>>]
    ELSE LET g == ApplyPermutation([f EXCEPT !.state = e])
             r == [x \in 1..NUM_COLUMNS |->
                      FeltAdd(FeltAdd(FeltAdd(e[x], e[x + NUM_COLUMNS]),
                                      g.state[x]),
                              g.state[x])]
         IN [f |-> [g EXCEPT !.result = r], out |-> r]

\* mutant: the input terms are read from the permuted state
Compress_PermutedInput(f, e) ==
    IF Len(e) # STATE_WIDTH THEN [f |-> Panic(f), out |-> <<>>]
    ELSE LET g == ApplyPermutation([f EXCEPT !.state = e])
             r == [x \in 1..NUM_COLUMNS |->
                      FeltAdd(FeltAdd(FeltAdd(g.state[x], g.state[x + NUM_COLUMNS]),
                                      g.state[x]),
                              g.state[x + NUM_COLUMNS])]
         IN [f |-> [g EXCEPT !.result = r], out |-> r]

\* a whole call of compress
Compress(f, e) ==
    IF Len(e) # STATE_WIDTH THEN [f |-> Panic(f), out |-> <<>>]
    ELSE LET g == ApplyPermutation([f EXCEPT !.state = e])
             r == [x \in 1..NUM_COLUMNS |->
                      FeltAdd(FeltAdd(FeltAdd(e[x], e[x + NUM_COLUMNS]),
                                      g.state[x]),
                              g.state[x + NUM_COLUMNS])]
         IN [f |-> [g EXCEPT !.result = r], out |-> r]

RECURSIVE CompressKInner_Short(_, _, _, _, _, _)
\* mutant: the inner loop stops one iteration early
CompressKInner_Short(r, e, st, x, c, j) ==
    IF j <= 1 THEN r
    ELSE FeltAdd(CompressKInner_Short(r, e, st, x, c, j - 1),
                 FeltAdd(e[x + c * (j - 2) + 1], st[x + c * (j - 2) + 1]))

RECURSIVE CompressKInner_UnitStride(_, _, _, _, _, _)
\* variant: the inner loop steps through adjacent positions
CompressKInner_UnitStride(r, e, st, x, c, j) ==
    IF j = 0 THEN r
    ELSE FeltAdd(CompressKInner_UnitStride(r, e, st, x, c, j - 1),
                 FeltAdd(e[x + (j - 1) + 1], st[x + (j - 1) + 1]))

RECURSIVE CompressKInner(_, _, _, _, _, _)
\* *r after iterations 0..j-1 of the inner loop of compress_k
CompressKInner(r, e, st, x, c, j) ==
    IF j = 0 THEN r
    ELSE FeltAdd(CompressKInner(r, e, st, x, c, j - 1),
                 FeltAdd(e[x + c * (j - 1) + 1], st[x + c * (j - 1) + 1]))

\* mutant: k is not required to be even
CompressK_NoParity(f, e, kk) ==
    IF \/ Len(e) # STATE_WIDTH
       \/ kk = 0
       \/ STATE_WIDTH % kk # 0
    THEN [f |-> Panic(f), out |-> <<>>]
    ELSE LET g == ApplyPermutation([f EXCEPT !.state = e])
             c == STATE_WIDTH \div kk
         IN IF \E x \in 0..(c - 1) : x + c * (kk - 1) >= STATE_WIDTH
            THEN [f |-> Panic(g), out |-> <<>>]
            ELSE LET r == [x \in 1..c |->
                              CompressKInner(FeltZero, e, g.state, x - 1, c, kk)]
                 IN [f |-> [g EXCEPT !.result = r], out |-> r]

\* a whole call of compress_k; STATE_WIDTH % 0 panics
CompressK(f, e, kk) ==
    IF \/ Len(e) # STATE_WIDTH
       \/ kk = 0
       \/ STATE_WIDTH % kk # 0
       \/ kk % 2 # 0
    THEN [f |-> Panic(f), out |-> <<>>]
    ELSE LET g == ApplyPermutation([f EXCEPT !.state = e])
             c == STATE_WIDTH \div kk
         IN IF \E x \in 0..(c - 1) : x + c * (kk - 1) >= STATE_WIDTH
            THEN [f |-> Panic(g), out |-> <<>>]
            ELSE LET r == [x \in 1..c |->
                              CompressKInner(FeltZero, e, g.state, x - 1, c, kk)]
                 IN [f |-> [g EXCEPT !.result = r], out |-> r]

\* ------------------------------------------------------------------------
\* Byte inputs
\* ------------------------------------------------------------------------
ByteVals == {0, 1, 255}
\* lengths of the last, partial chunk
TailLens == {0, 1, 2, 29, 30}

\* len bytes: fill, ..., fill, last
ByteString(len, fill, last) == [j \in 1..len |-> IF j = len THEN last ELSE fill]

DigestInputs == {<<v>> : v \in FeltVals}

\* ------------------------------------------------------------------------
\* Actions
\* ------------------------------------------------------------------------
Idle == pc = "idle"

CallHashField ==
    /\ Idle
    /\ \E len \in 0..MaxElems : \E e \in ElemInputs(len) :
        /\ op' = "hash_field"
        /\ elems' = e
        /\ bytes' = <<>> /\ digests' = <<>> /\ k' = 0
        /\ SetLocals(HashFieldEnter(e))
    /\ pc' = "hf_loop"
    /\ out' = <<>>
    /\ UNCHANGED hist

\* the loop of hash_field has an element left
HashFieldAbsorbGuard == pc = "hf_loop" /\ n < Len(elems)

HashFieldAbsorbStep ==
    /\ HashFieldAbsorbGuard
    /\ LET f == HashFieldAbsorb(Locals, elems[n + 1])
       IN /\ SetLocals(f)
          /\ pc' = IF f.abort THEN "panic" ELSE "hf_loop"
    /\ UNCHANGED <<op, args, out, hist>>

\* variant: sigma may be added before the loop has taken every element
HashFieldSigmaStep_Early ==
    /\ pc = "hf_loop"
    /\ n <= Len(elems)
    /\ SetLocals(HashFieldSigma(Locals))
    /\ pc' = "hf_if"
    /\ UNCHANGED <<op, args, out, hist>>

\* the loop of hash_field has taken every element
HashFieldSigmaGuard == pc = "hf_loop" /\ n = Len(elems)

HashFieldSigmaStep ==
    /\ HashFieldSigmaGuard
    /\ SetLocals(HashFieldSigma(Locals))
    /\ pc' = "hf_if"
    /\ UNCHANGED <<op, args, out, hist>>

\* if sigma.is_zero() holds in hash_field
HashFieldPadGuard == pc = "hf_if" /\ FeltIsZero(sigma)

HashFieldPadStep ==
    /\ HashFieldPadGuard
    /\ LET f == HashFieldPad(Locals)
       IN /\ SetLocals(f)
          /\ pc' = IF f.abort THEN "panic" ELSE "hf_permute"
    /\ UNCHANGED <<op, args, out, hist>>

\* hash_field is at its final permutation
HashFieldFinalGuard == pc = "hf_permute"

HashFieldFinalStep ==
    /\ HashFieldFinalGuard
    /\ SetLocals(HashFieldFinal(Locals))
    /\ pc' = "hf_squeeze"
    /\ UNCHANGED <<op, args, out, hist>>

\* hash_field is at its return statement
HashFieldSqueezeGuard == pc = "hf_squeeze" \/ (pc = "hf_if" /\ ~FeltIsZero(sigma))

HashFieldSqueezeStep ==
    /\ HashFieldSqueezeGuard
    /\ out' = HashFieldSqueeze(Locals)
    /\ pc' = "done"
    /\ UNCHANGED <<op, args, locals, hist>>

RECURSIVE HashFieldLoop(_, _)
\* the whole absorption loop
HashFieldLoop(f, e) ==
    IF f.abort \/ f.n >= Len(e) THEN f
    ELSE HashFieldLoop(HashFieldAbsorb(f, e[f.n + 1]), e)

\* a whole call of hash_field: its final locals and its digest
HashFieldRun(e) ==
    LET a == HashFieldLoop(HashFieldEnter(e), e)
        s == IF a.abort THEN a ELSE HashFieldSigma(a)
        p == IF s.abort \/ ~FeltIsZero(s.sigma) THEN s ELSE HashFieldPad(s)
        q == IF p.abort \/ ~FeltIsZero(p.sigma) THEN p ELSE HashFieldFinal(p)
    IN [f |-> q, out |-> IF q.abort THEN <<>> ELSE HashFieldSqueeze(q)]

CallHash ==
    /\ Idle
    /\ \E q \in 0..MaxChunks, m \in TailLens, fill \in ByteVals, last \in ByteVals :
       LET b == ByteString(CHUNK_SIZE * q + m, fill, last) IN
        /\ op' = "hash"
        /\ bytes' = b
        /\ elems' = <<>> /\ digests' = <<>> /\ k' = 0
        /\ SetLocals(HashEnter(b))
    /\ pc' = "h_loop"
    /\ out' = <<>>
    /\ UNCHANGED hist

\* the loop of hash has a chunk left
HashAbsorbGuard == pc = "h_loop" /\ n < NumChunks(bytes)

HashAbsorbStep ==
    /\ HashAbsorbGuard
    /\ LET f == HashAbsorb(Locals, Chunk(bytes, n))
       IN /\ SetLocals(f)
          /\ pc' = IF f.abort THEN "panic" ELSE "h_loop"
    /\ UNCHANGED <<op, args, out, hist>>

\* the loop of hash has taken every chunk
HashSigmaGuard == pc = "h_loop" /\ n = NumChunks(bytes)

HashSigmaStep ==
    /\ HashSigmaGuard
    /\ SetLocals(HashSigma(Locals))
    /\ pc' = "h_if"
    /\ UNCHANGED <<op, args, out, hist>>

\* if sigma.is_zero() holds in hash
HashPadGuard == pc = "h_if" /\ FeltIsZero(sigma)

HashPadStep ==
    /\ HashPadGuard
    /\ LET f == HashPad(Locals)
       IN /\ SetLocals(f)
          /\ pc' = IF f.abort THEN "panic" ELSE "h_permute"
    /\ UNCHANGED <<op, args, out, hist>>

\* hash is at its final permutation
HashFinalGuard == pc = "h_permute"

HashFinalStep ==
    /\ HashFinalGuard
    /\ SetLocals(HashFinal(Locals))
    /\ pc' = "h_squeeze"
    /\ UNCHANGED <<op, args, out, hist>>

\* hash is at its return statement
HashSqueezeGuard == pc = "h_squeeze" \/ (pc = "h_if" /\ ~FeltIsZero(sigma))

HashSqueezeStep ==
    /\ HashSqueezeGuard
    /\ out' = HashSqueeze(Locals)
    /\ pc' = "done"
    /\ UNCHANGED <<op, args, locals, hist>>

CallMerge ==
    /\ Idle
    /\ \E d1 \in DigestInputs, d2 \in DigestInputs :
        /\ op' = "merge"
        /\ digests' = <<d1, d2>>
        /\ bytes' = <<>> /\ elems' = <<>> /\ k' = 0
    /\ SetLocals(NoLocals)
    /\ pc' = "m_body"
    /\ out' = <<>>
    /\ UNCHANGED hist

MergeStep ==
    /\ pc = "m_body"
    /\ LET r == Merge(Locals, digests)
       IN /\ SetLocals(r.f)
          /\ out' = r.out
    /\ pc' = "done"
    /\ UNCHANGED <<op, args, hist>>

CallCompress ==
    /\ Idle
    /\ \E len \in 0..MaxElems : \E e \in ElemInputs(len) :
        /\ op' = "compress"
        /\ elems' = e
        /\ bytes' = <<>> /\ digests' = <<>> /\ k' = 0
    /\ SetLocals(NoLocals)
    /\ pc' = "c_body"
    /\ out' = <<>>
    /\ UNCHANGED hist

CompressStep ==
    /\ pc = "c_body"
    /\ LET r == Compress(Locals, elems)
       IN /\ SetLocals(r.f)
          /\ out' = r.out
          /\ pc' = IF r.f.abort THEN "panic" ELSE "done"
    /\ UNCHANGED <<op, args, hist>>

CallCompressK ==
    /\ Idle
    /\ \E len \in 0..MaxElems, kk \in 0..MaxK : \E e \in ElemInputs(len) :
        /\ op' = "compress_k"
        /\ elems' = e
        /\ k' = kk
        /\ bytes' = <<>> /\ digests' = <<>>
    /\ SetLocals(NoLocals)
    /\ pc' = "ck_body"
    /\ out' = <<>>
    /\ UNCHANGED hist

CompressKStep ==
    /\ pc = "ck_body"
    /\ LET r == CompressK(Locals, elems, k)
       IN /\ SetLocals(r.f)
          /\ out' = r.out
          /\ pc' = IF r.f.abort THEN "panic" ELSE "done"
    /\ UNCHANGED <<op, args, hist>>

\* the caller takes the result (or the panic unwinds); the locals are dropped
Return ==
    /\ pc \in {"done", "panic"}
    /\ op' = "none"
    /\ pc' = "idle"
    /\ bytes' = <<>> /\ elems' = <<>> /\ digests' = <<>> /\ k' = 0
    /\ SetLocals(NoLocals)
    /\ out' = <<>>
    /\ UNCHANGED hist

\* ------------------------------------------------------------------------
Init ==
    /\ op = "none"
    /\ pc = "idle"
    /\ bytes = <<>> /\ elems = <<>> /\ digests = <<>> /\ k = 0
    /\ state = NoLocals.state
    /\ sigma = NoLocals.sigma
    /\ i = NoLocals.i
    /\ num_hashed = NoLocals.num_hashed
    /\ num_elements = NoLocals.num_elements
    /\ buf = NoLocals.buf
    /\ n = NoLocals.n
    /\ perms = NoLocals.perms
    /\ absorbed = NoLocals.absorbed
    /\ result = NoLocals.result
    /\ abort = NoLocals.abort
    /\ out = <<>>
    /\ hist = NoHist

Next ==
    \/ CallHashField
    \/ HashFieldAbsorbStep
    \/ HashFieldSigmaStep
    \/ HashFieldPadStep
    \/ HashFieldFinalStep
    \/ HashFieldSqueezeStep
    \/ CallHash
    \/ HashAbsorbStep
    \/ HashSigmaStep
    \/ HashPadStep
    \/ HashFinalStep
    \/ HashSqueezeStep
    \/ CallMerge
    \/ MergeStep
    \/ CallCompress
    \/ CompressStep
    \/ CallCompressK
    \/ CompressKStep
    \/ Return

Spec == Init /\ [][Next]_vars

\* a finished call agrees with the whole-call operator
RunConsistent ==
    /\ pc = "done" /\ op = "hash_field" =>
        LET r == HashFieldRun(elems) IN r.out = out /\ r.f = Locals
    /\ pc = "done" /\ op = "hash" =>
        LET r == HashRun(bytes) IN r.out = out /\ r.f = Locals

\* ------------------------------------------------------------------------
\* Properties
\* ------------------------------------------------------------------------
\* Two digests are the same output element of the same permutation applied
\* to the same state: the same term over the same recorded permutation inputs.
SameDigest(out1, perms1, out2, perms2) == out1 = out2 /\ perms1 = perms2

\* C1: sigma separates rate-aligned inputs from padded ones: the digest of a
\* finished hash_field call on an input whose length is a multiple of r is
\* never the same permutation output as the digest of an input whose length
\* is not a multiple of r.
C1_SigmaSeparatesAligned ==
    (pc = "done" /\ op = "hash_field" /\ Len(elems) % RATE_WIDTH = 0) =>
        \A len \in 0..MaxElems :
            len % RATE_WIDTH # 0 =>
                \A x \in ElemInputs(len) :
                    LET r == HashFieldRun(x)
                    IN ~SameDigest(r.out, r.f.perms, out, perms)

\* C2: merge permutes the state holding d1 in state[0..d], d2 in
\* state[d..2d] and zero elsewhere, and returns the first d outputs.
C2_MergeUsesBothDigests ==
    (pc = "done" /\ op = "merge") =>
        /\ perms = <<[j \in 1..STATE_WIDTH |->
                        IF j <= DIGEST_SIZE THEN digests[1][j]
                        ELSE IF j <= 2 * DIGEST_SIZE THEN digests[2][j - DIGEST_SIZE]
                        ELSE FeltZero]>>
        /\ out = [j \in 1..DIGEST_SIZE |-> PermOut(1, j)]

\* an element that fits in 248 bits
Fits248(a) == a.sym = EmptyBag /\ LimbsLt(a.val, Felt248.val)

\* the first 31 bytes of the serialization of each element, concatenated
Bytes31(e) ==
    [x \in 1..(CHUNK_SIZE * Len(e)) |->
        FeltByte(e[((x - 1) \div CHUNK_SIZE) + 1], ((x - 1) % CHUNK_SIZE) + 1)]

\* C3: for elements that each fit in 248 bits, hash of the concatenated
\* 31-byte prefixes of their serializations returns the digest of hash_field.
C3_FieldByteEquivalence ==
    (/\ pc = "done" /\ op = "hash_field"
     /\ \A j \in 1..Len(elems) : Fits248(elems[j])) =>
        LET r == HashRun(Bytes31(elems))
        IN ~r.f.abort /\ SameDigest(r.out, r.f.perms, out, perms)

C3_Witness ==
    /\ pc = "done" /\ op = "hash_field"
    /\ Len(elems) > RATE_WIDTH
    /\ \A j \in 1..Len(elems) : Fits248(elems[j])
    /\ elems[1] = Felt248Max
    /\ elems[Len(elems)] = FeltOne

Zeros(z) == [j \in 1..z |-> 0]

\* C4: appending zero bytes to a byte string changes the sequence of absorbed
\* elements; for a string whose length is not a multiple of 31, one appended
\* zero byte changes the input of the last permutation, so the two digests
\* are not the same permutation output.
C4_TrailingZerosChangeEncoding ==
    (pc = "done" /\ op = "hash") =>
        \A z \in 1..MaxZeros :
            LET r == HashRun(bytes \o Zeros(z))
            IN /\ r.f.absorbed # absorbed
               /\ (z = 1 /\ Len(bytes) % CHUNK_SIZE # 0) =>
                    /\ perms # <<>> /\ r.f.perms # <<>>
                    /\ r.f.perms[Len(r.f.perms)] # perms[Len(perms)]
                    /\ ~SameDigest(r.out, r.f.perms, out, perms)

C4_Witness ==
    /\ pc = "done" /\ op = "hash"
    /\ Len(bytes) % CHUNK_SIZE = 30
    /\ Len(bytes) > CHUNK_SIZE * RATE_WIDTH
    /\ bytes[Len(bytes)] = 0

\* C5: the digest returned by hash, hash_field and merge is state[0..d] as
\* the last permutation of the call left it.
C5_DigestIsLastPermutationOutput ==
    (pc = "done" /\ op \in {"hash", "hash_field", "merge"} /\ perms # <<>>) =>
        out = [j \in 1..DIGEST_SIZE |-> PermOut(Len(perms), j)]

C5_Witness ==
    /\ pc = "done" /\ op = "hash"
    /\ sigma = FeltOne
    /\ perms # <<>>
    /\ state[STATE_WIDTH] = FeltAdd(PermOut(Len(perms), STATE_WIDTH), FeltOne)

\* C6: compress_k with k = 2 returns the vector compress returns.
C6_CompressK2IsCompress ==
    (op = "compress_k" /\ pc \in {"done", "panic"} /\ k = 2
     /\ Len(elems) = STATE_WIDTH) =>
        LET r == Compress(NoLocals, elems)
        IN pc = "done" /\ ~r.f.abort /\ out = r.out /\ perms = r.f.perms

C6_Witness ==
    /\ op = "compress_k" /\ pc = "done" /\ k = 2
    /\ elems = RampDown(STATE_WIDTH)

PermutedState == [j \in 1..STATE_WIDTH |-> PermOut(1, j)]

\* C7: compress on t elements returns t/2 elements,
\* out[i] = input[i] + input[i + t/2] + state[i] + state[i + t/2] with state
\* the permutation of a copy of the input; the input itself is left as it was.
C7_CompressFormula ==
    [][(pc = "c_body" /\ Len(elems) = STATE_WIDTH) =>
        /\ pc' = "done"
        /\ elems' = elems
        /\ perms' = <<elems>>
        /\ Len(out') = STATE_WIDTH \div 2
        /\ \A x \in 1..(STATE_WIDTH \div 2) :
            out'[x] = FeltAdd(FeltAdd(elems[x], elems[x + STATE_WIDTH \div 2]),
                              FeltAdd(PermutedState[x],
                                      PermutedState[x + STATE_WIDTH \div 2]))]_vars

C7_Witness ==
    /\ op = "compress" /\ pc = "done"
    /\ elems = RampDown(STATE_WIDTH)
    /\ Len(out) = NUM_COLUMNS

RECURSIVE SumOver(_, _)
\* the field sum of the entries of e at the positions S
SumOver(e, S) ==
    IF S = {} THEN FeltZero
    ELSE LET x == CHOOSE y \in S : TRUE
         IN FeltAdd(e[x], SumOver(e, S \ {x}))

ValidK(kk) == kk > 0 /\ kk % 2 = 0 /\ STATE_WIDTH % kk = 0

\* C8: compress_k on t elements with k even dividing t returns c = t/k
\* elements, out[i] the sum over j < k of input[i + c*j] + state[i + c*j];
\* for k = t the single output is the sum of all inputs and all state positions.
C8_CompressKFormula ==
    (op = "compress_k" /\ pc \in {"done", "panic"}
     /\ Len(elems) = STATE_WIDTH /\ ValidK(k)) =>
        LET c == STATE_WIDTH \div k
        IN /\ pc = "done"
           /\ perms = <<elems>>
           /\ Len(out) = c
           /\ \A x \in 1..c :
                LET cols == {x + c * j : j \in 0..(k - 1)}
                IN out[x] = FeltAdd(SumOver(elems, cols),
                                    SumOver(PermutedState, cols))
           /\ k = STATE_WIDTH =>
                out = <<FeltAdd(SumOver(elems, 1..STATE_WIDTH),
                                SumOver(PermutedState, 1..STATE_WIDTH))>>

C8_Witness ==
    /\ op = "compress_k" /\ pc = "done" /\ k = STATE_WIDTH
    /\ elems = RampDown(STATE_WIDTH)
    /\ Len(out) = 1

\* the call violates a precondition of compress / compress_k
BadJiveCall ==
    \/ op = "compress" /\ Len(elems) # STATE_WIDTH
    \/ op = "compress_k" /\ (Len(elems) # STATE_WIDTH \/ ~ValidK(k))

\* C9: compress and compress_k called against their preconditions panic
\* before any permutation is applied and return nothing.
C9_PreconditionsFailFast ==
    (pc \in {"done", "panic"} /\ BadJiveCall) =>
        pc = "panic" /\ abort /\ perms = <<>> /\ out = <<>> /\ result = <<>>

C9_Witness ==
    /\ pc = "panic" /\ op = "compress_k"
    /\ Len(elems) = STATE_WIDTH
    /\ k = 3

\* C10: every buffer hash hands to Felt::read has byte 31 zero: its value is
\* below 2^248, the read succeeds and hash does not panic.
C10_ReadBufferHighByteZero ==
    op = "hash" =>
        /\ buf[BUF_SIZE] = 0
        /\ FeltRead(buf).ok
        /\ LimbsLt(FeltRead(buf).felt.val, Felt248.val)
        /\ pc # "panic" /\ ~abort

C10_Witness ==
    /\ op = "hash" /\ pc = "h_loop"
    /\ n > RATE_WIDTH
    /\ buf[BUF_SIZE - 1] = 255
    /\ buf[BUF_SIZE] = 0

\* ------------------------------------------------------------------------
\* C11
\* ------------------------------------------------------------------------
ZeroElems(len) == Pattern(len, FeltZero, FeltZero)

\* C11: hash_field on r zero elements and hash_field on 2r zero elements do
\* not return the same digest: the first applies the permutation once, to the
\* zero state, and returns its first output; the second applies it a second
\* time, to the output of the first application, and returns the first output
\* of that second application.
C11_ZeroBlocksDiffer ==
    (op = "hash_field" /\ pc = "done" /\ elems = ZeroElems(2 * RATE_WIDTH)) =>
        LET one == HashFieldRun(ZeroElems(RATE_WIDTH))
        IN /\ one.f.perms = <<ZeroState>>
           /\ one.out = <<PermOut(1, 1)>>
           /\ perms = <<ZeroState, PermutedState>>
           /\ out = <<PermOut(2, 1)>>
           /\ ~SameDigest(one.out, one.f.perms, out, perms)

C11_Witness ==
    /\ op = "hash_field" /\ pc = "done"
    /\ elems = ZeroElems(2 * RATE_WIDTH)
    /\ Len(perms) = 2
    /\ out # HashFieldRun(ZeroElems(RATE_WIDTH)).out

\* ------------------------------------------------------------------------
\* Calls made one after the other without an intervening reset: the variables
\* hold what the previous call left until the next call initialises its own
\* locals.  One finished call is kept in hist and compared with later calls
\* on the same arguments.
\* ------------------------------------------------------------------------
CallRec(o, b, e, d, kk) == [op |-> o, bytes |-> b, elems |-> e, digests |-> d, k |-> kk]

RepeatLens == {0, 1, RATE_WIDTH, STATE_WIDTH}
RepeatByteLens == {0, CHUNK_SIZE - 1, CHUNK_SIZE, 2 * CHUNK_SIZE}
RepeatDigests == {<<FeltZero>>, <<FeltOne>>}
RepeatKs == {0, 2, 3, STATE_WIDTH}

RepeatCalls ==
    {CallRec("hash_field", <<>>, RampUp(l), <<>>, 0) : l \in RepeatLens}
        \cup {CallRec("hash", ByteString(l, 1, 255), <<>>, <<>>, 0) : l \in RepeatByteLens}
        \cup {CallRec("merge", <<>>, <<>>, <<d1, d2>>, 0) :
                  d1 \in RepeatDigests, d2 \in RepeatDigests}
        \cup {CallRec("compress", <<>>, RampUp(l), <<>>, 0) :
                  l \in {RATE_WIDTH, STATE_WIDTH}}
        \cup {CallRec("compress_k", <<>>, RampUp(STATE_WIDTH), <<>>, kk) : kk \in RepeatKs}

\* the locals a call declares before its first statement
EnterOf(c) ==
    IF c.op = "hash" THEN HashEnter(c.bytes)
    ELSE IF c.op = "hash_field" THEN HashFieldEnter(c.elems)
    ELSE NoLocals

FirstPc(o) ==
    CASE o = "hash" -> "h_loop"
      [] o = "hash_field" -> "hf_loop"
      [] o = "merge" -> "m_body"
      [] o = "compress" -> "c_body"
      [] o = "compress_k" -> "ck_body"

\* a call of any operation, made before any call or after one has ended
CallAgain ==
    /\ pc \in {"idle", "done", "panic"}
    /\ \E c \in RepeatCalls :
        /\ op' = c.op
        /\ bytes' = c.bytes /\ elems' = c.elems /\ digests' = c.digests /\ k' = c.k
        /\ SetLocals(EnterOf(c))
        /\ pc' = FirstPc(c.op)
        /\ out' = <<>>
        /\ hist' = IF hist.op = "none"
                      \/ (hist.op = c.op
                          /\ hist.args = <<c.bytes, c.elems, c.digests, c.k>>)
                   THEN hist
                   ELSE [hist EXCEPT !.other = TRUE]

\* the caller keeps the arguments and the outcome of the call that just ended
Remember ==
    /\ pc \in {"done", "panic"}
    /\ hist' = [op |-> op, args |-> args, pc |-> pc, out |-> out,
                perms |-> perms, other |-> FALSE]
    /\ UNCHANGED <<op, pc, args, locals, out>>

NextRepeat ==
    \/ CallAgain
    \/ Remember
    \/ HashFieldAbsorbStep
    \/ HashFieldSigmaStep
    \/ HashFieldPadStep
    \/ HashFieldFinalStep
    \/ HashFieldSqueezeStep
    \/ HashAbsorbStep
    \/ HashSigmaStep
    \/ HashPadStep
    \/ HashFinalStep
    \/ HashSqueezeStep
    \/ MergeStep
    \/ CompressStep
    \/ CompressKStep

SpecRepeat == Init /\ [][NextRepeat]_vars

\* C12: the outcome of a call depends only on its arguments: a call that
\* ends on the same operation and arguments as an earlier call, whatever
\* calls ran in between and whatever they left behind, ends the same way
\* (returns or panics), returns the same value and has applied the
\* permutation to the same inputs.
C12_DependsOnlyOnArguments ==
    (pc \in {"done", "panic"} /\ hist.op = op /\ hist.args = args) =>
        /\ hist.pc = pc
        /\ hist.out = out
        /\ hist.perms = perms

C12_Witness ==
    /\ pc = "done" /\ op = "hash_field" /\ elems = RampUp(STATE_WIDTH)
    /\ hist.op = op /\ hist.args = args
    /\ hist.other
    /\ Len(perms) = 2 /\ hist.out = out

\* ------------------------------------------------------------------------
\* C14
\* ------------------------------------------------------------------------
\* C14: at the head of every iteration of the loop of hash, num_hashed + i is
\* the index of the current chunk, num_hashed is a multiple of r and
\* 0 <= i < r; hence num_hashed + i < num_elements - 1 holds for every chunk
\* but the last one, also across block boundaries, and every chunk it holds
\* for has 31 bytes.
C14_NotLastPredicateIsChunkIndex ==
    (op = "hash" /\ pc = "h_loop") =>
        /\ num_elements = NumChunks(bytes)
        /\ num_hashed + i = n
        /\ num_hashed % RATE_WIDTH = 0
        /\ 0 <= i /\ i < RATE_WIDTH
        /\ n < NumChunks(bytes) =>
            /\ (num_hashed + i < num_elements - 1) <=> (n # NumChunks(bytes) - 1)
            /\ (num_hashed + i < num_elements - 1) => Len(Chunk(bytes, n)) = CHUNK_SIZE

\* the loop is at the last chunk, which is short and opens a second block
C14_Witness ==
    /\ op = "hash" /\ pc = "h_loop"
    /\ n = RATE_WIDTH /\ NumChunks(bytes) = RATE_WIDTH + 1
    /\ num_hashed = RATE_WIDTH /\ i = 0
    /\ Len(Chunk(bytes, n)) < CHUNK_SIZE
    /\ ~(num_hashed + i < num_elements - 1)

\* ------------------------------------------------------------------------
\* C15
\* ------------------------------------------------------------------------
\* the byte strings of the input family that split into c chunks
StringsOfChunks(c) ==
    {y \in {ByteString(CHUNK_SIZE * q + m, fill, last) :
                q \in {c - 1, c} \cap (0..MaxChunks), m \in TailLens,
                fill \in ByteVals, last \in ByteVals} :
        NumChunks(y) = c}

\* the elements hash adds to the state for the byte string y
Encoding(y) == HashLoop(HashEnter(y), y).absorbed

\* C15: the byte-level pad-one makes the encoding of byte strings
\* unambiguous: no byte string different from the one just hashed is absorbed
\* as the same sequence of elements.
C15_ByteEncodingInjective ==
    (op = "hash" /\ pc = "done") =>
        \A y \in StringsOfChunks(NumChunks(bytes)) :
            y # bytes => Encoding(y) # absorbed

\* ------------------------------------------------------------------------
\* C16
\* ------------------------------------------------------------------------
\* byte x (1-based) of a chunk, 0 past its end
ByteAt(chunk, x) == IF x <= Len(chunk) THEN chunk[x] ELSE 0

\* the little-endian integer of the bytes of a chunk
ChunkInteger(chunk) ==
    FeltOf([j \in 1..NUM_LIMBS |-> ByteAt(chunk, 2*j - 1) + 256 * ByteAt(chunk, 2*j)])

\* 256^e for 0 <= e < 2 * NUM_LIMBS
Pow256(e) ==
    FeltOf([j \in 1..NUM_LIMBS |->
               IF j # (e \div 2) + 1 THEN 0 ELSE IF e % 2 = 0 THEN 1 ELSE 256])

\* C16: the element hash absorbs for a chunk depends on that chunk only: it
\* is the little-endian integer of the chunk's bytes, plus 256^L for the last
\* chunk when its length L is below 31; after the chunk is absorbed the
\* buffer holds the chunk, the marker if any, and zeros, no byte of an
\* earlier chunk.
C16_ElementDependsOnChunkOnly ==
    (op = "hash" /\ n >= 1) =>
        LET chunk == Chunk(bytes, n - 1)
            L == Len(chunk)
            marked == n = NumChunks(bytes) /\ L < CHUNK_SIZE
        IN /\ ~abort
           /\ Len(absorbed) = n
           /\ n < NumChunks(bytes) => L = CHUNK_SIZE
           /\ absorbed[n] = IF marked THEN FeltAdd(ChunkInteger(chunk), Pow256(L))
                            ELSE ChunkInteger(chunk)
           /\ \A j \in 1..BUF_SIZE :
                buf[j] = IF j = L + 1 /\ marked THEN 1 ELSE ByteAt(chunk, j)

\* a short last chunk absorbed after a full chunk of non-zero bytes
C16_Witness ==
    /\ op = "hash" /\ pc = "done"
    /\ NumChunks(bytes) = 2 /\ n = 2
    /\ Len(bytes) = 2 * CHUNK_SIZE - 2
    /\ bytes[1] = 255 /\ bytes[CHUNK_SIZE] = 255
    /\ buf[CHUNK_SIZE - 1] = 1 /\ buf[CHUNK_SIZE] = 0
    /\ absorbed[2] # absorbed[1]

\* ------------------------------------------------------------------------
\* C17
\* ------------------------------------------------------------------------
\* the step is an iteration of the absorption loop of hash or hash_field
AbsorbIteration ==
    /\ pc \in {"hf_loop", "h_loop"}
    /\ n' = n + 1
    /\ pc' = pc

\* C17: an iteration of the absorption loop of hash_field or hash that takes
\* the k-th element (0-based) finds i = k mod r and floor(k/r) permutations
\* applied; it adds the element to state[i], keeping what the slot held, and
\* leaves the other slots; when i + 1 reaches r it applies the permutation to
\* that state and resets i to 0, otherwise it applies no permutation and
\* increments i.
C17_AbsorptionSchedule ==
    [][AbsorbIteration =>
        LET element == absorbed'[n + 1]
            added == [state EXCEPT ![i + 1] = FeltAdd(state[i + 1], element)]
        IN /\ op = "hash_field" => element = elems[n + 1]
           /\ Len(absorbed') = n + 1
           /\ i = n % RATE_WIDTH
           /\ Len(perms) = n \div RATE_WIDTH
           /\ IF i + 1 = RATE_WIDTH
              THEN /\ perms' = Append(perms, added)
                   /\ i' = 0
                   /\ state' = [j \in 1..STATE_WIDTH |-> PermOut(Len(perms) + 1, j)]
              ELSE /\ perms' = perms
                   /\ i' = i + 1
                   /\ state' = added]_vars

\* an element has been added to a slot of the second block, on top of an
\* output of the permutation
C17_Witness ==
    /\ op = "hash_field" /\ pc = "hf_loop"
    /\ n = RATE_WIDTH + 2 /\ i = 2
    /\ elems = RampUp(2 * RATE_WIDTH)
    /\ state[2] = FeltAdd(PermOut(1, 2), SmallFelt(RATE_WIDTH + 2))
    /\ Len(perms) = 1

\* ------------------------------------------------------------------------
\* C18
\* ------------------------------------------------------------------------
\* C18: throughout a call of hash, num_elements is ceil(len / 31) and sigma
\* is 1 when that number is a multiple of r and 0 otherwise; the empty input
\* has zero elements and sigma = 1; it is the sigma hash_field computes for a
\* list of that many elements.
C18_SigmaFromElementCount ==
    op = "hash" =>
        LET count == (Len(bytes) + CHUNK_SIZE - 1) \div CHUNK_SIZE
        IN /\ num_elements = count
           /\ sigma = IF count % RATE_WIDTH = 0 THEN FeltOne ELSE FeltZero
           /\ sigma = HashFieldEnter(ZeroElems(count)).sigma
           /\ bytes = <<>> => count = 0 /\ sigma = FeltOne

\* ten full chunks and one byte: eleven elements, sigma = 1
C18_Witness ==
    /\ op = "hash" /\ pc = "h_if"
    /\ Len(bytes) = CHUNK_SIZE * (RATE_WIDTH - 1) + 1
    /\ num_elements = RATE_WIDTH
    /\ sigma = FeltOne
    /\ state[STATE_WIDTH] = FeltAdd(PermOut(1, STATE_WIDTH), FeltOne)

\* ------------------------------------------------------------------------
\* C19
\* ------------------------------------------------------------------------
\* the step is the pad-one addition of hash or hash_field
PadAddition ==
    /\ pc \in {"hf_if", "h_if"}
    /\ pc' \notin {pc, "done"}

\* C19: the pad-one addition happens with sigma = 0 only, at index
\* i = (number of absorbed elements) mod r with 1 <= i <= r-1: the rate slot
\* after the one of the last absorbed element; it adds 1 to that slot and
\* leaves the other slots, the capacity slot t-1 included.  No call of hash or
\* hash_field accesses the state outside 0..t-1: i stays within 0..r-1 and no
\* access panics.
C19_PadOneIndex ==
    [][/\ op' \in {"hash", "hash_field"} =>
            /\ 0 <= i' /\ i' <= RATE_WIDTH - 1
            /\ pc' # "panic" /\ ~abort'
       /\ PadAddition =>
            /\ FeltIsZero(sigma)
            /\ i = Len(absorbed) % RATE_WIDTH
            /\ 1 <= i /\ i <= RATE_WIDTH - 1
            /\ i + 1 # STATE_WIDTH
            /\ state' = [state EXCEPT ![i + 1] = FeltAdd(state[i + 1], FeltOne)]
            /\ state'[STATE_WIDTH] = state[STATE_WIDTH]]_vars

\* the pad-one has been added to the last rate slot
C19_Witness ==
    /\ op = "hash" /\ pc = "h_permute"
    /\ Len(absorbed) = RATE_WIDTH - 1 /\ i = RATE_WIDTH - 1
    /\ state[RATE_WIDTH] = FeltOne
    /\ state[STATE_WIDTH] = FeltZero

\* ------------------------------------------------------------------------
\* C20
\* ------------------------------------------------------------------------
LoopPcs == {"hf_loop", "h_loop"}
BranchPcs == {"hf_if", "h_if"}
PermutePcs == {"hf_permute", "h_permute"}
SqueezePcs == {"hf_squeeze", "h_squeeze"}

\* number of elements the running call of hash or hash_field absorbs
TotalElements == IF op = "hash" THEN NumChunks(bytes) ELSE Len(elems)

\* C20: the order of finalization in hash and hash_field.  The loop never
\* resumes once left and changes state[t-1] by a permutation only; sigma is
\* added to state[t-1], in the one step that leaves the loop, after every
\* element has been absorbed and every permutation of the loop has run; the
\* pad-one addition follows that step, with sigma = 0 only and with no
\* permutation in between; the final permutation takes the padded state; the
\* digest is read in the last step, from the state as it is then.
C20_FinalizationOrder ==
    [][(op \in {"hash", "hash_field"} /\ op' = op) =>
        /\ pc' \in LoopPcs =>
            /\ pc \in LoopPcs
            /\ state'[STATE_WIDTH] = state[STATE_WIDTH] \/ Len(perms') = Len(perms) + 1
        /\ pc' \in BranchPcs =>
            /\ pc \in LoopPcs
            /\ n = TotalElements /\ Len(absorbed) = TotalElements
            /\ Len(perms) = TotalElements \div RATE_WIDTH
            /\ state' = [state EXCEPT ![STATE_WIDTH] = FeltAdd(state[STATE_WIDTH], sigma)]
            /\ perms' = perms
        /\ pc' \in PermutePcs =>
            /\ pc \in BranchPcs
            /\ FeltIsZero(sigma)
            /\ state'[i + 1] = FeltAdd(state[i + 1], FeltOne)
            /\ perms' = perms
        /\ pc' \in SqueezePcs =>
            /\ pc \in PermutePcs
            /\ perms' = Append(perms, state)
        /\ pc' = "done" =>
            /\ pc \in SqueezePcs \/ (pc \in BranchPcs /\ ~FeltIsZero(sigma))
            /\ out' = SubSeq(state, 1, DIGEST_SIZE)
            /\ state' = state /\ perms' = perms]_vars

\* twelve elements: a permutation in the loop, sigma = 0, the pad-one next to
\* the twelfth element, the final permutation, the digest
C20_Witness ==
    /\ op = "hash_field" /\ pc = "done"
    /\ elems = RampUp(STATE_WIDTH)
    /\ Len(perms) = 2
    /\ perms[2][1] = FeltAdd(PermOut(1, 1), SmallFelt(STATE_WIDTH))
    /\ perms[2][2] = FeltAdd(PermOut(1, 2), FeltOne)
    /\ perms[2][STATE_WIDTH] = PermOut(1, STATE_WIDTH)
    /\ out = <<PermOut(2, 1)>>

\* ------------------------------------------------------------------------
\* C21
\* ------------------------------------------------------------------------
\* some statement of the running call of hash or hash_field can run
SpongeGuard ==
    \/ HashFieldAbsorbGuard \/ HashFieldSigmaGuard \/ HashFieldPadGuard
    \/ HashFieldFinalGuard \/ HashFieldSqueezeGuard
    \/ HashAbsorbGuard \/ HashSigmaGuard \/ HashPadGuard
    \/ HashFinalGuard \/ HashSqueezeGuard

\* statements after the loop still to run, at most
StepsAfterLoop ==
    CASE pc \in LoopPcs -> 4
      [] pc \in BranchPcs -> 3
      [] pc \in PermutePcs -> 2
      [] pc \in SqueezePcs -> 1
      [] OTHER -> 0

\* statements the running call has still to run, at most
StepsLeft == (TotalElements - n) + StepsAfterLoop

\* what C21 says of a state of a call of hash or hash_field
PermutationCount ==
    /\ StepsLeft >= 0
    /\ pc # "done" => SpongeGuard
    /\ pc \in BranchPcs => Len(perms) = TotalElements \div RATE_WIDTH
    /\ pc = "done" =>
        /\ n = TotalElements /\ Len(absorbed) = TotalElements
        /\ Len(perms) = (TotalElements + RATE_WIDTH - 1) \div RATE_WIDTH
        /\ (Len(perms) = TotalElements \div RATE_WIDTH + 1)
               <=> (TotalElements % RATE_WIDTH # 0)

\* C21: a call of hash_field on n elements, or of hash on a byte string of
\* n = ceil(L / 31) chunks, ends: until it has ended a statement can always
\* run, and every statement lowers the number of statements left, which is
\* never negative.  When the loop is left the permutation has been applied
\* floor(n / r) times; when the call has ended it has run exactly n absorption
\* steps and applied the permutation ceil(n / r) times, once more than in the
\* loop exactly when n mod r # 0.
C21_TerminationAndPermutationCount ==
    [][op' \in {"hash", "hash_field"} =>
        /\ PermutationCount'
        /\ op = op' => StepsLeft' < StepsLeft]_vars

\* a call on 23 elements has ended after three permutations
C21_Witness ==
    /\ op = "hash_field" /\ pc = "done"
    /\ Len(elems) = 2 * RATE_WIDTH + 1
    /\ n = 2 * RATE_WIDTH + 1
    /\ Len(perms) = 3

\* ------------------------------------------------------------------------
\* C22
\* ------------------------------------------------------------------------
\* C22: a finished call of hash on the empty byte string, or of hash_field on
\* the empty list, has applied no permutation and returns the all-zero
\* digest: sigma is 1, the state is zero but for state[t-1] = 1, and the
\* digest is read from the zero slots state[0..d].
C22_EmptyInputDigestIsZero ==
    (op \in {"hash", "hash_field"} /\ pc = "done" /\ TotalElements = 0) =>
        /\ perms = <<>>
        /\ absorbed = <<>>
        /\ sigma = FeltOne
        /\ state = [ZeroState EXCEPT ![STATE_WIDTH] = FeltOne]
        /\ out = [j \in 1..DIGEST_SIZE |-> FeltZero]

C22_Witness ==
    /\ op = "hash_field" /\ pc = "done" /\ elems = <<>>
    /\ out = <<FeltZero>>
    /\ state[STATE_WIDTH] = FeltOne

\* ------------------------------------------------------------------------
\* C23
\* ------------------------------------------------------------------------
\* C23: hash(b) runs as hash_field(E(b)), E(b) being the elements hash has
\* absorbed: at the head of every iteration of the loop of hash the state,
\* the index i and the permutation inputs so far are those of the loop of
\* hash_field fed with the elements absorbed so far, and the finished call
\* has the sigma, the final state, the permutation inputs, the pad-one
\* position and the digest of hash_field on E(b).
C23_HashIsHashFieldOfEncoding ==
    op = "hash" =>
        /\ pc = "h_loop" =>
            LET g == HashFieldLoop(NoLocals, absorbed)
            IN /\ g.state = state
               /\ g.i = i
               /\ g.n = n
               /\ g.perms = perms
        /\ pc = "done" =>
            LET r == HashFieldRun(absorbed)
            IN /\ absorbed = Encoding(bytes)
               /\ r.f.sigma = sigma
               /\ r.f.state = state
               /\ r.f.i = i
               /\ r.f.perms = perms
               /\ r.out = out

\* two full chunks and a one-byte chunk, hashed with a pad-one at index 3
C23_Witness ==
    /\ op = "hash" /\ pc = "done"
    /\ Len(bytes) = 2 * CHUNK_SIZE + 1
    /\ Len(absorbed) = 3 /\ i = 3
    /\ perms = <<[ZeroState EXCEPT ![1] = absorbed[1], ![2] = absorbed[2],
                                   ![3] = absorbed[3], ![4] = FeltOne]>>
    /\ out = HashFieldRun(absorbed).out

\* ------------------------------------------------------------------------
\* C24
\* ------------------------------------------------------------------------
\* number of complete blocks of r elements of a list
Blocks(e) == Len(e) \div RATE_WIDTH

\* the lists of the input family that are no longer than e, have a last
\* partial block, and have the complete blocks of e
SameBlocks(e) ==
    {y \in UNION {ElemInputs(len) :
                     len \in (RATE_WIDTH * Blocks(e) + 1)..Len(e)} :
        SubSeq(y, 1, RATE_WIDTH * Blocks(e)) = SubSeq(e, 1, RATE_WIDTH * Blocks(e))}

\* the state hash_field passes to its final permutation
FinalInput(e) == LET p == HashFieldRun(e).f.perms IN p[Len(p)]

\* the state hash_field passes to its final permutation for a list y with a
\* last partial block, resumed from the locals f it has after the complete
\* blocks of y
FinalInputAfter(f, y) == HashFieldPad(HashFieldSigma(HashFieldLoop(f, y))).state

\* C24: a finished call of hash_field on a list whose length is not a
\* multiple of r passed to its final permutation a state that differs from
\* the one of every other list with a last partial block and the same
\* complete blocks.
C24_PartialBlockEncodingInjective ==
    (op = "hash_field" /\ pc = "done" /\ Len(elems) % RATE_WIDTH # 0) =>
        LET shared == HashFieldLoop(HashFieldEnter(elems),
                                    SubSeq(elems, 1, RATE_WIDTH * Blocks(elems)))
        IN \A len \in (RATE_WIDTH * Blocks(elems) + 1)..Len(elems) :
            \A y \in ElemInputs(len) :
                (/\ SubSeq(y, 1, RATE_WIDTH * Blocks(elems))
                        = SubSeq(elems, 1, RATE_WIDTH * Blocks(elems))
                 /\ y # elems) =>
                    FinalInputAfter(shared, y) # perms[Len(perms)]

\* a tail 1, 1 after one complete block: the shorter tail 1 with its pad-one
\* agrees with it on the first two slots only
C24_Witness ==
    /\ op = "hash_field" /\ pc = "done"
    /\ elems = Pattern(RATE_WIDTH + 2, FeltOne, FeltOne)
    /\ Pattern(RATE_WIDTH + 1, FeltOne, FeltOne) \in SameBlocks(elems)
    /\ FinalInput(Pattern(RATE_WIDTH + 1, FeltOne, FeltOne))[2] = perms[2][2]
    /\ FinalInput(Pattern(RATE_WIDTH + 1, FeltOne, FeltOne))[3] # perms[2][3]

\* ------------------------------------------------------------------------
\* C25
\* ------------------------------------------------------------------------
\* the slots in which two states differ
ChangedSlots(s1, s2) == {j \in 1..STATE_WIDTH : s1[j] # s2[j]}

\* C25: in hash and hash_field an iteration of the absorption loop that
\* applies no permutation changes rate slots only (positions 0..r-1), and at
\* most the one at index i; state[t-1] changes only in a step that applies
\* the permutation or in the sigma addition that leaves the loop; the first
\* permutation of a call finds state[t-1] = 0.
C25_AbsorptionLeavesCapacity ==
    [][(op' \in {"hash", "hash_field"} /\ op' = op) =>
        /\ (AbsorbIteration /\ perms' = perms) =>
            /\ ChangedSlots(state, state') \subseteq {i + 1}
            /\ i + 1 <= RATE_WIDTH
        /\ state'[STATE_WIDTH] # state[STATE_WIDTH] =>
            \/ Len(perms') = Len(perms) + 1
            \/ /\ pc \in LoopPcs /\ pc' \in BranchPcs
               /\ state'[STATE_WIDTH] = FeltAdd(state[STATE_WIDTH], sigma)
        /\ perms' # <<>> => perms'[1][STATE_WIDTH] = FeltZero]_vars

\* the first permutation of a call has run on a state with capacity 0 and
\* sigma = 1 has then been added to state[t-1]
C25_Witness ==
    /\ op = "hash" /\ pc = "h_if"
    /\ Len(absorbed) = RATE_WIDTH
    /\ Len(perms) = 1 /\ perms[1][STATE_WIDTH] = FeltZero
    /\ perms[1][RATE_WIDTH] = absorbed[RATE_WIDTH]
    /\ state[STATE_WIDTH] = FeltAdd(PermOut(1, STATE_WIDTH), FeltOne)

\* ------------------------------------------------------------------------
\* C26
\* ------------------------------------------------------------------------
\* the field sum of all entries of a sequence
SumAll(e) == SumOver(e, 1..Len(e))

\* the k accepted by compress_k
ValidKs == {kk \in 1..STATE_WIDTH : ValidK(kk)}

\* C26: a call of compress_k on t elements with a valid k returns without
\* an out-of-range access; the sum of its outputs is the sum over all t
\* positions of input[p] + permute(input)[p], every output of the permutation
\* counted exactly once; that sum is the sum of the outputs for every other
\* valid k, and for k = t the only output is the sum of the outputs of
\* compress on the same input.
C26_CompressKSumInvariant ==
    (op = "compress_k" /\ pc \in {"done", "panic"}
     /\ Len(elems) = STATE_WIDTH /\ ValidK(k)) =>
        LET total == SumAll(out)
        IN /\ pc = "done"
           /\ Len(out) = STATE_WIDTH \div k
           /\ total = FeltAdd(SumAll(elems), SumAll(PermutedState))
           /\ \A p \in 1..STATE_WIDTH : CopiesIn(<<1, p>>, total.sym) = 1
           /\ \A k2 \in ValidKs : SumAll(CompressK(NoLocals, elems, k2).out) = total
           /\ k = STATE_WIDTH => out = <<SumAll(Compress(NoLocals, elems).out)>>

\* k = 4: three outputs of four input and four state terms each
C26_Witness ==
    /\ op = "compress_k" /\ pc = "done" /\ k = 4
    /\ elems = RampUp(STATE_WIDTH)
    /\ Len(out) = 3
    /\ BagCardinality(out[1].sym) = 4
    /\ SumAll(out) = SumAll(CompressK(NoLocals, elems, STATE_WIDTH).out)

\* ------------------------------------------------------------------------
\* C27
\* ------------------------------------------------------------------------
\* C27: hash does not abort.  No state of a call of hash is a panic; at the
\* head of an iteration that has a chunk to take, num_elements >= 1, so
\* num_elements - 1 does not underflow; a chunk taken by the not-last branch
\* has exactly 31 bytes; the last chunk has 1..31 bytes, its marker index, if
\* any, is at most 30; and the buffer read afterwards is a field element.
C27_HashDoesNotAbort ==
    op = "hash" =>
        /\ pc # "panic" /\ ~abort
        /\ HashAbsorbGuard =>
            LET chunk == Chunk(bytes, n)
                nb == HashFillBuf(Locals, chunk)
            IN /\ num_elements >= 1
               /\ Len(nb) = BUF_SIZE
               /\ (num_hashed + i < num_elements - 1) => Len(chunk) = 31
               /\ ~(num_hashed + i < num_elements - 1) =>
                    /\ 1 <= Len(chunk) /\ Len(chunk) <= 31
                    /\ Len(chunk) < 31 => (Len(chunk) <= 30 /\ nb[Len(chunk) + 1] = 1)
               /\ FeltRead(nb).ok
               /\ i < STATE_WIDTH

\* the longest input, all bytes 255, has been hashed
C27_Witness ==
    /\ op = "hash" /\ pc = "done" /\ ~abort
    /\ Len(bytes) = CHUNK_SIZE * MaxChunks + CHUNK_SIZE - 1
    /\ bytes[1] = 255 /\ bytes[Len(bytes)] = 255
    /\ Len(absorbed) = MaxChunks + 1

\* ------------------------------------------------------------------------
\* C28
\* ------------------------------------------------------------------------
\* Base field of BLS12-377 (Felt of src/bls12_377): 384-bit little-endian
\* integers as 24 limbs of 16 bits
\* ------------------------------------------------------------------------
FQ_LIMBS == 24

\* modulus of ark_bls12_377::Fq,
\* 0x01ae3a4617c510eac63b05c06ca1493b1a22d9f300f5138f1ef3622fba094800170b5d44300000008508c00000000001
FQ_MODULUS == <<1, 0, 49152, 34056, 0, 12288, 23876, 5899,
              18432, 47625, 25135, 7923, 5007, 245, 55795, 6690,
              18747, 27809, 1472, 50747, 4330, 6085, 14918, 430>>

\* a < b on 24-limb vectors
FqLimbsLt(a, b) ==
    \E j \in 1..FQ_LIMBS :
        /\ a[j] < b[j]
        /\ \A m \in (j+1)..FQ_LIMBS : a[m] = b[m]

\* a + b, which stays below 2^384
FqAddLimbs(a, b) ==
    <<SumLimb(a, b, 1), SumLimb(a, b, 2), SumLimb(a, b, 3), SumLimb(a, b, 4),
      SumLimb(a, b, 5), SumLimb(a, b, 6), SumLimb(a, b, 7), SumLimb(a, b, 8),
      SumLimb(a, b, 9), SumLimb(a, b, 10), SumLimb(a, b, 11), SumLimb(a, b, 12),
      SumLimb(a, b, 13), SumLimb(a, b, 14), SumLimb(a, b, 15), SumLimb(a, b, 16),
      SumLimb(a, b, 17), SumLimb(a, b, 18), SumLimb(a, b, 19), SumLimb(a, b, 20),
      SumLimb(a, b, 21), SumLimb(a, b, 22), SumLimb(a, b, 23), SumLimb(a, b, 24)>>

\* a - b for a >= b
FqSubLimbs(a, b) ==
    <<DiffLimb(a, b, 1), DiffLimb(a, b, 2), DiffLimb(a, b, 3), DiffLimb(a, b, 4),
      DiffLimb(a, b, 5), DiffLimb(a, b, 6), DiffLimb(a, b, 7), DiffLimb(a, b, 8),
      DiffLimb(a, b, 9), DiffLimb(a, b, 10), DiffLimb(a, b, 11), DiffLimb(a, b, 12),
      DiffLimb(a, b, 13), DiffLimb(a, b, 14), DiffLimb(a, b, 15), DiffLimb(a, b, 16),
      DiffLimb(a, b, 17), DiffLimb(a, b, 18), DiffLimb(a, b, 19), DiffLimb(a, b, 20),
      DiffLimb(a, b, 21), DiffLimb(a, b, 22), DiffLimb(a, b, 23), DiffLimb(a, b, 24)>>

\* x + y in Fq
FqAdd(a, b) ==
    LET s == FqAddLimbs(a, b)
    IN IF FqLimbsLt(s, FQ_MODULUS) THEN s ELSE FqSubLimbs(s, FQ_MODULUS)

\* arguments of mul_by_generator: small values, values next to the modulus, and
\* values at which the first, second, third or fourth doubling exceeds the modulus
FqVals ==
    {<<0, 0, 0, 0, 0, 0, 0, 0,
       0, 0, 0, 0, 0, 0, 0, 0,
       0, 0, 0, 0, 0, 0, 0, 0>>,
     <<1, 0, 0, 0, 0, 0, 0, 0,
       0, 0, 0, 0, 0, 0, 0, 0,
       0, 0, 0, 0, 0, 0, 0, 0>>,
     <<2, 0, 0, 0, 0, 0, 0, 0,
       0, 0, 0, 0, 0, 0, 0, 0,
       0, 0, 0, 0, 0, 0, 0, 0>>,
     <<3, 0, 0, 0, 0, 0, 0, 0,
       0, 0, 0, 0, 0, 0, 0, 0,
       0, 0, 0, 0, 0, 0, 0, 0>>,
     <<65535, 65535, 65535, 65535, 65535, 65535, 65535, 65535,
       65535, 65535, 65535, 65535, 65535, 65535, 65535, 65535,
       65535, 65535, 65535, 65535, 65535, 65535, 65535, 0>>,
     <<0, 0, 35840, 2128, 0, 17152, 46548, 368,
       38016, 64416, 13858, 61935, 20792, 12303, 11679, 45474,
       5267, 1738, 45148, 44131, 20750, 24956, 58276, 26>>,
     <<1, 0, 35840, 2128, 0, 17152, 46548, 368,
       38016, 64416, 13858, 61935, 20792, 12303, 11679, 45474,
       5267, 1738, 45148, 44131, 20750, 24956, 58276, 26>>,
     <<26214, 26214, 42598, 15377, 13107, 819, 19068, 393,
       14336, 16282, 36628, 22373, 35286, 13123, 38672, 35398,
       49309, 54282, 43788, 38335, 57086, 13512, 44685, 28>>,
     <<26215, 26214, 42598, 15377, 13107, 819, 19068, 393,
       14336, 16282, 36628, 22373, 35286, 13123, 38672, 35398,
       49309, 54282, 43788, 38335, 57086, 13512, 44685, 28>>,
     <<0, 0, 0, 0, 0, 0, 0, 0,
       0, 0, 0, 0, 0, 0, 0, 0,
       0, 0, 0, 0, 0, 0, 0, 32>>,
     <<0, 0, 6144, 4257, 0, 34304, 27560, 737,
       10496, 63297, 27717, 58334, 41585, 24606, 23358, 25412,
       10535, 3476, 24760, 22727, 41501, 49912, 51016, 53>>,
     <<1, 0, 6144, 4257, 0, 34304, 27560, 737,
       10496, 63297, 27717, 58334, 41585, 24606, 23358, 25412,
       10535, 3476, 24760, 22727, 41501, 49912, 51016, 53>>,
     <<0, 0, 0, 0, 0, 0, 0, 0,
       0, 0, 0, 0, 0, 0, 0, 0,
       0, 0, 0, 0, 0, 0, 0, 64>>,
     <<0, 0, 12288, 8514, 0, 3072, 55121, 1474,
       20992, 61058, 55435, 51132, 17635, 49213, 46716, 50824,
       21070, 6952, 49520, 45454, 17466, 34289, 36497, 107>>,
     <<1, 0, 12288, 8514, 0, 3072, 55121, 1474,
       20992, 61058, 55435, 51132, 17635, 49213, 46716, 50824,
       21070, 6952, 49520, 45454, 17466, 34289, 36497, 107>>,
     <<0, 0, 0, 0, 0, 0, 0, 0,
       0, 0, 0, 0, 0, 0, 0, 0,
       0, 0, 0, 0, 0, 0, 0, 128>>,
     <<52429, 52428, 36044, 42107, 26214, 5734, 2404, 2753,
       34816, 48439, 59789, 25542, 50396, 26328, 8561, 51182,
       17486, 52299, 44377, 6205, 6390, 29054, 50652, 200>>,
     <<0, 0, 24576, 17028, 0, 6144, 44706, 2949,
       41984, 56580, 45335, 36729, 35271, 32890, 27897, 36113,
       42141, 13904, 33504, 25373, 34933, 3042, 7459, 215>>,
     <<1, 0, 24576, 17028, 0, 6144, 44706, 2949,
       41984, 56580, 45335, 36729, 35271, 32890, 27897, 36113,
       42141, 13904, 33504, 25373, 34933, 3042, 7459, 215>>,
     <<0, 0, 0, 0, 0, 0, 0, 0,
       0, 0, 0, 0, 0, 0, 0, 0,
       0, 0, 0, 0, 0, 0, 0, 256>>,
     <<5, 0, 1024, 23414, 0, 57600, 53278, 4055,
       24960, 53222, 21376, 25927, 32114, 4264, 62935, 41463,
       57944, 19118, 37876, 26696, 31649, 12375, 51216, 295>>,
     <<0, 0, 0, 0, 0, 0, 0, 0,
       0, 0, 0, 0, 0, 0, 0, 0,
       0, 0, 0, 0, 0, 0, 0, 384>>,
     <<1, 0, 13312, 31928, 0, 60672, 42863, 5530,
       45952, 48744, 11276, 11524, 49750, 53477, 44115, 26752,
       13479, 26071, 21860, 6615, 49116, 46664, 22177, 403>>,
     <<65534, 65535, 49151, 34056, 0, 12288, 23876, 5899,
       18432, 47625, 25135, 7923, 5007, 245, 55795, 6690,
       18747, 27809, 1472, 50747, 4330, 6085, 14918, 430>>,
     <<65535, 65535, 49151, 34056, 0, 12288, 23876, 5899,
       18432, 47625, 25135, 7923, 5007, 245, 55795, 6690,
       18747, 27809, 1472, 50747, 4330, 6085, 14918, 430>>,
     <<0, 0, 49152, 34056, 0, 12288, 23876, 5899,
       18432, 47625, 25135, 7923, 5007, 245, 55795, 6690,
       18747, 27809, 1472, 50747, 4330, 6085, 14918, 430>>}

FqZero == [j \in 1..FQ_LIMBS |-> 0]

\* variant: the doubling is not reduced modulo the modulus
FqDouble_NoReduce(a) == FqAddLimbs(a, a)

\* x.double()
FqDouble(a) ==
    LET s == FqAddLimbs(a, a)
    IN IF FqLimbsLt(s, FQ_MODULUS) THEN s ELSE FqSubLimbs(s, FQ_MODULUS)

\* x - y in Fq
FqSub(a, b) ==
    IF FqLimbsLt(a, b) THEN FqSubLimbs(FqAddLimbs(a, FQ_MODULUS), b)
    ELSE FqSubLimbs(a, b)

\* a whole call of mul_by_generator
MulByGenerator(x) ==
    LET x2 == FqDouble(x)
        x4 == FqDouble(x2)
        x8 == FqDouble(x4)
        x16 == FqDouble(x8)
    IN FqSub(x16, x)

CallMulByGenerator ==
    /\ Idle
    /\ \E x \in FqVals :
        /\ op' = "mul_by_generator"
        /\ elems' = <<x>>
        /\ bytes' = <<>> /\ digests' = <<>> /\ k' = 0
    /\ SetLocals(NoLocals)
    /\ pc' = "mg_x2"
    /\ out' = <<>>
    /\ UNCHANGED hist

\* let x2 = x.double()
MulX2Step ==
    /\ pc = "mg_x2"
    /\ SetLocals([Locals EXCEPT !.result = <<FqDouble(elems[1])>>])
    /\ pc' = "mg_x4"
    /\ UNCHANGED <<op, args, out, hist>>

\* let x4 = x2.double()
MulX4Step ==
    /\ pc = "mg_x4"
    /\ SetLocals([Locals EXCEPT !.result = Append(@, FqDouble(result[1]))])
    /\ pc' = "mg_x8"
    /\ UNCHANGED <<op, args, out, hist>>

\* let x8 = x4.double()
MulX8Step ==
    /\ pc = "mg_x8"
    /\ SetLocals([Locals EXCEPT !.result = Append(@, FqDouble(result[2]))])
    /\ pc' = "mg_x16"
    /\ UNCHANGED <<op, args, out, hist>>

\* let x16 = x8.double()
MulX16Step ==
    /\ pc = "mg_x16"
    /\ SetLocals([Locals EXCEPT !.result = Append(@, FqDouble(result[3]))])
    /\ pc' = "mg_sub"
    /\ UNCHANGED <<op, args, out, hist>>

\* x16 - x
MulSubStep ==
    /\ pc = "mg_sub"
    /\ out' = <<FqSub(result[4], elems[1])>>
    /\ pc' = "done"
    /\ UNCHANGED <<op, args, locals, hist>>

NextMul ==
    \/ CallMulByGenerator
    \/ MulX2Step
    \/ MulX4Step
    \/ MulX8Step
    \/ MulX16Step
    \/ MulSubStep
    \/ Return

SpecMul == Init /\ [][NextMul]_vars

RECURSIVE FqTimes(_, _)
\* m * x in Fq for a natural number m: x added m times
FqTimes(m, x) == IF m = 0 THEN FqZero ELSE FqAdd(x, FqTimes(m - 1, x))

\* C28: mul_by_generator(x) goes through 2x, 4x, 8x and 16x and returns the
\* reduced field element 15 * x, for 0, for values next to the modulus and
\* for values at which a doubling or the subtraction wraps around the
\* modulus; it is linear: mul_by_generator(x + y) =
\* mul_by_generator(x) + mul_by_generator(y).
C28_MulByGeneratorIsTimes15 ==
    (op = "mul_by_generator" /\ pc = "done") =>
        LET x == elems[1]
        IN /\ result = <<FqTimes(2, x), FqTimes(4, x), FqTimes(8, x), FqTimes(16, x)>>
           /\ out = <<FqTimes(15, x)>>
           /\ FqLimbsLt(out[1], FQ_MODULUS)
           /\ \A y \in FqVals :
                MulByGenerator(FqAdd(x, y)) = FqAdd(out[1], MulByGenerator(y))

\* the first doubling of x = (q + 1) / 2 exceeded the modulus (x2 = 1) and the
\* subtraction 8 - x wrapped around it
C28_Witness ==
    /\ op = "mul_by_generator" /\ pc = "done"
    /\ result[1] = [j \in 1..FQ_LIMBS |-> IF j = 1 THEN 1 ELSE 0]
    /\ result[4] = [j \in 1..FQ_LIMBS |-> IF j = 1 THEN 8 ELSE 0]
    /\ FqLimbsLt(result[4], elems[1])
    /\ out[1] = FqSubLimbs(FqAddLimbs(result[4], FQ_MODULUS), elems[1])

====
